---- MODULE Spec2Model ----
(***************************************************************************)
(* A model of main.py: the synthetic index, the RRG coordinates, the ratio *)
(* indicators with their moving averages, the quadrant colour and the      *)
(* moving-average status text.                                             *)
(*                                                                         *)
(* Prices and every derived number are exact non-negative rationals, or    *)
(* one of the two special floats the program can produce from them: NaN    *)
(* (a missing observation, 0/0) and +Inf (x/0 with x > 0).  The rounding of *)
(* binary floating point is not modelled.                                  *)
(***************************************************************************)
EXTENDS Integers, Sequences, FiniteSets, TLC

VARIABLES
    pc,             \* position of main(): "synth", "rrg", "ind", "dash", "tg", "done"; "call"/"ret" for one function alone
    df_close,       \* the price table: ticker -> sequence of closes, one per date
    rrg_data,       \* calculate_rrg_components' result: sector -> record
    rrg_locals,     \* the locals r_ratio and r_mom of each sector's iteration
    ind_results,    \* calculate_indicators' result: sequence of records
    quadrant,       \* generate_dashboard: sector -> marker colour
    tg_configured,  \* TG_BOT_TOKEN and TG_CHAT_ID are both set
    tg_message,     \* send_telegram: the leading and improving names and each indicator's status
    escaped,        \* an exception left main()
    arg_x, arg_y,   \* the arguments of one call of get_quadrant_color
    arg_val,        \* the arguments of one call of get_ma_status_text
    arg_row,
    ret             \* the value that call returned

vars == <<pc, df_close, rrg_data, rrg_locals, ind_results, quadrant,
          tg_configured, tg_message, escaped, arg_x, arg_y, arg_val, arg_row, ret>>

(***************************************************************************)
(* Numbers.                                                                *)
(***************************************************************************)
NaN == [k |-> "nan", n |-> 0, d |-> 1]
Inf == [k |-> "inf", n |-> 0, d |-> 1]

RECURSIVE GCD(_, _)
GCD(a, b) == IF b = 0 THEN a ELSE GCD(b, a % b)

\* the rational n/d in lowest terms (n >= 0, d > 0)
Num(n, d) == LET g == GCD(n, d) IN [k |-> "num", n |-> n \div g, d |-> d \div g]
Whole(n) == [k |-> "num", n |-> n, d |-> 1]

IsNaN(a) == a.k = "nan"
IsNum(a) == a.k = "num"
\* pandas notna(): a value is present
Defined(a) == a.k # "nan"

\* float addition
Add(a, b) ==
    IF IsNaN(a) \/ IsNaN(b) THEN NaN
    ELSE IF a.k = "inf" \/ b.k = "inf" THEN Inf
    ELSE LET g == GCD(a.d, b.d)
         IN Num(a.n * (b.d \div g) + b.n * (a.d \div g), (a.d \div g) * b.d)

\* float subtraction of finite numbers with a >= b (the window sum minus a value in it)
Sub(a, b) ==
    IF ~IsNum(a) \/ ~IsNum(b) THEN NaN
    ELSE LET g == GCD(a.d, b.d)
         IN Num(a.n * (b.d \div g) - b.n * (a.d \div g), (a.d \div g) * b.d)

\* float multiplication
Mul(a, b) ==
    IF IsNaN(a) \/ IsNaN(b) THEN NaN
    ELSE IF a.k = "inf" THEN (IF b.k = "num" /\ b.n = 0 THEN NaN ELSE Inf)
    ELSE IF b.k = "inf" THEN (IF a.n = 0 THEN NaN ELSE Inf)
    ELSE LET g1 == GCD(a.n, b.d)
             g2 == GCD(b.n, a.d)
         IN Num((a.n \div g1) * (b.n \div g2), (a.d \div g2) * (b.d \div g1))

\* numpy float division: x/0 is inf, 0/0 and inf/inf are nan, x/inf is 0
Div(a, b) ==
    IF IsNaN(a) \/ IsNaN(b) THEN NaN
    ELSE IF a.k = "inf" THEN (IF b.k = "inf" THEN NaN ELSE Inf)
    ELSE IF b.k = "inf" THEN Whole(0)
    ELSE IF b.n = 0 THEN (IF a.n = 0 THEN NaN ELSE Inf)
    ELSE Mul(a, [k |-> "num", n |-> b.d, d |-> b.n])

\* float a < b: False whenever a NaN takes part
Lt(a, b) ==
    /\ ~IsNaN(a) /\ ~IsNaN(b)
    /\ a.k = "num"
    /\ (b.k = "inf" \/ a.n * b.d < b.n * a.d)

\* float a > b
Gt(a, b) == Lt(b, a)

(***************************************************************************)
(* Configuration (main.py, lines 14-66).                                   *)
(***************************************************************************)
BENCHMARK == "SPY"
\* SECTOR_CONFIG['SECTORS'].keys(), in the dict's order
SECTORS == <<"XLK", "ERH", "XLC", "XLF", "XLI", "XLB", "XLRE", "XLP", "XLV", "XLU", "XLE">>
\* SYNTHETIC_CONFIG: one synthetic ticker and its components with their weights
SYNTH_NAME == "ERH"
SYNTH_COMPONENTS == <<[ticker |-> "PEJ", weight |-> Num(35, 100)],
                      [ticker |-> "XHB", weight |-> Num(35, 100)],
                      [ticker |-> "XRT", weight |-> Num(30, 100)]>>
INDICATORS == <<[name |-> "ERH/XLP", numerator |-> "ERH", denominator |-> "XLP"],
                [name |-> "XLI/XLU", numerator |-> "XLI", denominator |-> "XLU"]>>
COLORS == [leading |-> "#2ca02c", weakening |-> "#e6aa00",
           lagging |-> "#d62728", improving |-> "#1f77b4"]

Range(s) == {s[i] : i \in DOMAIN s}
Hundred == Whole(100)

(***************************************************************************)
(* get_quadrant_color (lines 191-195).                                     *)
(***************************************************************************)
\* a slip of the comparison: the boundary x == 100 counted as Leading
get_quadrant_color_ge(x, y) ==
    IF ~Lt(x, Hundred) /\ Gt(y, Hundred) THEN COLORS.leading
    ELSE IF Lt(x, Hundred) /\ Gt(y, Hundred) THEN COLORS.improving
    ELSE IF Lt(x, Hundred) /\ Lt(y, Hundred) THEN COLORS.lagging
    ELSE COLORS.weakening

get_quadrant_color(x, y) ==
    IF Gt(x, Hundred) /\ Gt(y, Hundred) THEN COLORS.leading
    ELSE IF Lt(x, Hundred) /\ Gt(y, Hundred) THEN COLORS.improving
    ELSE IF Lt(x, Hundred) /\ Lt(y, Hundred) THEN COLORS.lagging
    ELSE COLORS.weakening

(***************************************************************************)
(* get_ma_status_text (lines 250-264).                                     *)
(***************************************************************************)
\* the row's columns, in the order the dict `mas` lists them
MA_COLS == <<"sma20", "ema20", "sma60", "ema60", "sma120", "ema120">>
MA_NAMES == <<"SMA20", "EMA20", "SMA60", "EMA60", "SMA120", "EMA120">>

\* mas.items()
MasItems(row) == [i \in 1..Len(MA_COLS) |-> [name |-> MA_NAMES[i], val |-> row[MA_COLS[i]]]]

\* sum(1 for v in mas.values() if current_val > v)
SupportCount(current_val, row) ==
    Cardinality({i \in 1..Len(MA_COLS) : Gt(current_val, row[MA_COLS[i]])})

\* list.sort on fewer than 64 items: the initial run (reversed when it is strictly
\* descending), then a binary insertion of each later item; only `<` on the keys.
RECURSIVE RunLength(_, _, _)
RunLength(a, run, desc) ==
    IF run < Len(a) /\ (Lt(a[run + 1].val, a[run].val) <=> desc)
    THEN RunLength(a, run + 1, desc)
    ELSE run

Reverse(a) == [i \in 1..Len(a) |-> a[Len(a) + 1 - i]]

RECURSIVE BinaryPos(_, _, _, _)
BinaryPos(a, pivot, l, r) ==
    IF l >= r THEN l
    ELSE LET p == l + ((r - l) \div 2)
         IN IF Lt(pivot.val, a[p + 1].val)
            THEN BinaryPos(a, pivot, l, p)
            ELSE BinaryPos(a, pivot, p + 1, r)

RECURSIVE BinarySort(_, _)
BinarySort(a, start) ==
    IF start > Len(a) THEN a
    ELSE LET pivot == a[start]
             l == BinaryPos(a, pivot, 0, start - 1)
         IN BinarySort(SubSeq(a, 1, l) \o <<pivot>> \o SubSeq(a, l + 1, start - 1)
                           \o SubSeq(a, start + 1, Len(a)),
                       start + 1)

\* sorted(mas.items(), key=lambda item: item[1])
SortedMas(a) ==
    IF Len(a) < 2 THEN a
    ELSE LET desc == Lt(a[2].val, a[1].val)
             run == RunLength(a, 2, desc)
             head == SubSeq(a, 1, run)
         IN BinarySort((IF desc THEN Reverse(head) ELSE head) \o SubSeq(a, run + 1, Len(a)),
                       run + 1)

\* a slip of the scan: the ceiling test made strict, so that an average equal to
\* the current value is passed over
ScanMasStrict(sorted_mas, i, current_val, floor_ma) ==
    LET RECURSIVE Go(_, _)
        Go(j, f) ==
            IF j > Len(sorted_mas) THEN [floor_ma |-> f, ceil_ma |-> "None"]
            ELSE IF Gt(current_val, sorted_mas[j].val)
                 THEN Go(j + 1, sorted_mas[j].name)
                 ELSE IF Lt(current_val, sorted_mas[j].val)
                      THEN [floor_ma |-> f, ceil_ma |-> sorted_mas[j].name]
                      ELSE Go(j + 1, f)
    IN Go(i, floor_ma)

\* the scan of lines 258-262: the floor moves up while current_val > val, the first
\* other item is the ceiling and ends the scan
RECURSIVE ScanMas(_, _, _, _)
ScanMas(sorted_mas, i, current_val, floor_ma) ==
    IF i > Len(sorted_mas) THEN [floor_ma |-> floor_ma, ceil_ma |-> "None"]
    ELSE IF Gt(current_val, sorted_mas[i].val)
         THEN ScanMas(sorted_mas, i + 1, current_val, sorted_mas[i].name)
         ELSE [floor_ma |-> floor_ma, ceil_ma |-> sorted_mas[i].name]

\* the four texts: what each one says
MAStatus(label, floor_ma, ceil_ma, support) ==
    [label |-> label, floor_ma |-> floor_ma, ceil_ma |-> ceil_ma, support |-> support]

get_ma_status_text(current_val, row) ==
    LET support_count == SupportCount(current_val, row)
        found == ScanMas(SortedMas(MasItems(row)), 1, current_val, "None")
    IN IF support_count = 6 THEN MAStatus("StrongBullish", "None", "None", 6)
       ELSE IF support_count = 0 THEN MAStatus("StrongBearish", "None", "None", 0)
       ELSE IF found.floor_ma # "None" /\ found.ceil_ma # "None"
            THEN MAStatus("Ranging", found.floor_ma, found.ceil_ma, support_count)
            ELSE MAStatus("Indeterminate", "None", "None", support_count)

(***************************************************************************)
(* The idle values of the variables a specification does not use.          *)
(***************************************************************************)
NoTable == [t \in {} |-> <<>>]
NoCall == [x |-> NaN, y |-> NaN, val |-> NaN, row |-> [c \in Range(MA_COLS) |-> NaN], ret |-> "None"]
NoMessage == [sent |-> FALSE, leading |-> {}, improving |-> {}, statuses |-> <<>>]

PipelineIdle ==
    /\ df_close = NoTable /\ rrg_data = NoTable /\ rrg_locals = NoTable
    /\ ind_results = <<>> /\ quadrant = NoTable
    /\ tg_configured = FALSE /\ tg_message = NoMessage /\ escaped = FALSE

(***************************************************************************)
(* Series: pandas' elementwise arithmetic and windows.                     *)
(***************************************************************************)
\* the sequence <<F(lo), ..., F(hi)>>, built in halves
RECURSIVE Build(_, _, _)
Build(F(_), lo, hi) ==
    IF lo > hi THEN <<>>
    ELSE IF lo = hi THEN <<F(lo)>>
    ELSE Build(F, lo, (lo + hi) \div 2) \o Build(F, ((lo + hi) \div 2) + 1, hi)

\* a / b on two columns of one table (same dates)
SeriesDiv(a, b) == LET F(i) == Div(a[i], b[i]) IN Build(F, 1, Len(a))
\* c * a
SeriesScale(c, a) == LET F(i) == Mul(c, a[i]) IN Build(F, 1, Len(a))
\* a.tail(k)
SeriesTail(a, k) == IF Len(a) <= k THEN a ELSE SubSeq(a, Len(a) - k + 1, Len(a))
\* a.iloc[-1]
SeriesLast(a) == a[Len(a)]

\* what a window function is given: inf replaced by nan
PrepValues(a) == LET F(i) == IF a[i].k = "inf" THEN NaN ELSE a[i] IN Build(F, 1, Len(a))

\* rolling(window).mean(), one date: the observation leaving the window is taken
\* from the sum and the count, the one entering is added, and the mean is the sum
\* over the count once min_periods observations are in the window
RollStep(vals, window, minp, i, st) ==
    LET leaves == i > window /\ IsNum(vals[i - window])
        sum_r == IF leaves THEN Sub(st.sum_x, vals[i - window]) ELSE st.sum_x
        nobs_r == IF leaves THEN st.nobs - 1 ELSE st.nobs
        enters == IsNum(vals[i])
        sum_a == IF enters THEN Add(sum_r, vals[i]) ELSE sum_r
        nobs_a == IF enters THEN nobs_r + 1 ELSE nobs_r
        mean == IF nobs_a >= minp /\ nobs_a > 0 THEN Div(sum_a, Whole(nobs_a)) ELSE NaN
    IN [sum_x |-> sum_a, nobs |-> nobs_a, out |-> Append(st.out, mean)]

\* the dates lo..hi in order (split in halves, which keeps the evaluation shallow)
RECURSIVE RollFrom(_, _, _, _, _, _)
RollFrom(vals, window, minp, lo, hi, st) ==
    IF lo > hi THEN st
    ELSE IF lo = hi THEN RollStep(vals, window, minp, lo, st)
    ELSE LET mid == (lo + hi) \div 2
             half == RollFrom(vals, window, minp, lo, mid, st)
         IN IF Len(half.out) = mid   \* the first half is evaluated before the second
            THEN RollFrom(vals, window, minp, mid + 1, hi, half)
            ELSE half

RollMean(vals, window, minp) ==
    RollFrom(vals, window, minp, 1, Len(vals), [sum_x |-> Whole(0), nobs |-> 0, out |-> <<>>]).out

\* rolling(window=window).mean(): min_periods is the window
RollingMean(a, window) == RollMean(PrepValues(a), window, window)

\* ewm(span, adjust=False).mean(), one date: the first observation seeds the average;
\* a missing observation keeps the average and ages its weight
EwmStep(vals, alpha, i, st) ==
    LET cur == vals[i]
        aged == Mul(st.old_wt, Sub(Whole(1), alpha))
        mixed == Div(Add(Mul(aged, st.weighted), Mul(alpha, cur)), Add(aged, alpha))
        w == IF IsNum(st.weighted)
             THEN (IF IsNum(cur) /\ st.weighted # cur THEN mixed ELSE st.weighted)
             ELSE cur
        wt == IF IsNum(st.weighted) /\ ~IsNum(cur) THEN aged ELSE Whole(1)
    IN [weighted |-> w, old_wt |-> wt, out |-> Append(st.out, w)]

RECURSIVE EwmFrom(_, _, _, _, _)
EwmFrom(vals, alpha, lo, hi, st) ==
    IF lo > hi THEN st
    ELSE IF lo = hi THEN EwmStep(vals, alpha, lo, st)
    ELSE LET mid == (lo + hi) \div 2
             half == EwmFrom(vals, alpha, lo, mid, st)
         IN IF Len(half.out) = mid   \* the first half is evaluated before the second
            THEN EwmFrom(vals, alpha, mid + 1, hi, half)
            ELSE half

\* ewm(span=span, adjust=False).mean(): alpha = 2 / (span + 1)
Ewm(a, span) ==
    EwmFrom(PrepValues(a), Num(2, span + 1), 1, Len(a),
            [weighted |-> NaN, old_wt |-> Whole(1), out |-> <<>>]).out

(***************************************************************************)
(* get_data_and_synthesize (lines 69-137): the synthesis of lines 113-131.  *)
(***************************************************************************)
Columns(df) == DOMAIN df
\* len(df.index): every column of a table has the table's dates
Rows(df) == IF Columns(df) = {} THEN 0 ELSE Len(df[CHOOSE t \in Columns(df) : TRUE])
\* df.empty
Empty(df) == Columns(df) = {} \/ Rows(df) = 0

\* a slip of line 121: a missing component is passed over, the others still summed
RECURSIVE CompositeSkipping(_, _, _)
CompositeSkipping(df, k, composite_series) ==
    IF k > Len(SYNTH_COMPONENTS) THEN composite_series
    ELSE LET c == SYNTH_COMPONENTS[k]
             F(i) == IF c.ticker \in Columns(df) /\ Defined(df[c.ticker][i])
                     THEN Add(composite_series[i], Mul(df[c.ticker][i], c.weight))
                     ELSE composite_series[i]
         IN CompositeSkipping(df, k + 1, Build(F, 1, Len(composite_series)))

\* the loop of lines 120-126 from component k on: composite_series += df[ticker] * weight
RECURSIVE CompositeFrom(_, _, _)
CompositeFrom(df, k, composite_series) ==
    IF k > Len(SYNTH_COMPONENTS) THEN composite_series
    ELSE LET c == SYNTH_COMPONENTS[k]
             F(i) == Add(composite_series[i], Mul(df[c.ticker][i], c.weight))
         IN CompositeFrom(df, k + 1, Build(F, 1, Len(composite_series)))

\* valid_calc: no component is missing from the table's columns
ValidCalc(df) == \A k \in 1..Len(SYNTH_COMPONENTS) : SYNTH_COMPONENTS[k].ticker \in Columns(df)

\* pd.Series(0, index=df_close.index) and the loop over the components
Composite(df) == LET Zero(i) == Whole(0) IN CompositeFrom(df, 1, Build(Zero, 1, Rows(df)))

\* the table with the synthetic ticker added when valid_calc
Synthesized(df) ==
    IF ValidCalc(df)
    THEN [t \in Columns(df) \cup {SYNTH_NAME} |-> IF t = SYNTH_NAME THEN Composite(df) ELSE df[t]]
    ELSE df

(***************************************************************************)
(* calculate_rrg_components (lines 139-172).                               *)
(***************************************************************************)
window_rs == 60
window_mom == 10
TrailLen == 5

\* the slip: no look at the columns before they are read
RrgSkippedNever(df, sec) == FALSE

\* line 150: the sector is passed over
RrgSkipped(df, sec) == sec \notin Columns(df) \/ BENCHMARK \notin Columns(df)

\* lines 153-157
RsRaw(df, sec) == SeriesDiv(df[sec], df[BENCHMARK])

\* the slip: the raw ratio is scaled but not divided by its average
RRatioUnnormalised(rs_raw) == SeriesScale(Hundred, rs_raw)

RRatio(rs_raw) == SeriesScale(Hundred, SeriesDiv(rs_raw, RollingMean(rs_raw, window_rs)))

\* a slip of the momentum window: one observation more is averaged
RMomLongWindow(r_ratio) == SeriesScale(Hundred, SeriesDiv(r_ratio, RollingMean(r_ratio, window_mom + 1)))

RMom(r_ratio) == SeriesScale(Hundred, SeriesDiv(r_ratio, RollingMean(r_ratio, window_mom)))

\* lines 164-171
RrgRecord(sec, r_ratio, r_mom) ==
    [display_name |-> sec,
     x |-> SeriesTail(r_ratio, TrailLen),
     y |-> SeriesTail(r_mom, TrailLen),
     current_x |-> SeriesLast(r_ratio),
     current_y |-> SeriesLast(r_mom)]

\* the sectors whose iteration reaches line 153
RrgSectors(df) == {sec \in Range(SECTORS) : ~RrgSkipped(df, sec)}

\* df_close[sec], df_close[benchmark] raise KeyError, iloc[-1] raises IndexError
RrgRaises(df) ==
    \E sec \in RrgSectors(df) : sec \notin Columns(df) \/ BENCHMARK \notin Columns(df) \/ Rows(df) = 0

RrgLocals(df) ==
    [sec \in RrgSectors(df) |->
        LET r_ratio == RRatio(RsRaw(df, sec))
        IN [r_ratio |-> r_ratio, r_mom |-> RMom(r_ratio)]]

(***************************************************************************)
(* calculate_indicators (lines 174-189).                                   *)
(***************************************************************************)
\* df_close[...] raises KeyError, caught at line 186
IndKeyError(df, item) == item.numerator \notin Columns(df) \/ item.denominator \notin Columns(df)

\* line 180
Ratio(df, item) == SeriesDiv(df[item.numerator], df[item.denominator])

\* lines 181-185
IndRecord(item, ratio) ==
    [meta |-> item.name,
     df |-> [close |-> ratio,
             sma20 |-> RollingMean(ratio, 20), ema20 |-> Ewm(ratio, 20),
             sma60 |-> RollingMean(ratio, 60), ema60 |-> Ewm(ratio, 60),
             sma120 |-> RollingMean(ratio, 120), ema120 |-> Ewm(ratio, 120)],
     latest_value |-> SeriesLast(ratio)]

RECURSIVE IndResultsFrom(_, _, _)
IndResultsFrom(df, k, results) ==
    IF k > Len(INDICATORS) THEN results
    ELSE IndResultsFrom(df, k + 1,
            IF IndKeyError(df, INDICATORS[k]) THEN results
            ELSE Append(results, IndRecord(INDICATORS[k], Ratio(df, INDICATORS[k]))))

(***************************************************************************)
(* main (lines 292-300), one action per call.                              *)
(***************************************************************************)
CallUnchanged == UNCHANGED <<arg_x, arg_y, arg_val, arg_row, ret>>

\* get_data_and_synthesize from line 113 on, and main's return on an empty table
GetDataAndSynthesize ==
    /\ pc = "synth"
    /\ df_close' = Synthesized(df_close)
    /\ pc' = IF Empty(df_close') THEN "done" ELSE "rrg"
    /\ UNCHANGED <<rrg_data, rrg_locals, ind_results, quadrant, tg_configured, tg_message, escaped>>
    /\ CallUnchanged

CalculateRrgComponents ==
    /\ pc = "rrg"
    /\ IF RrgRaises(df_close)
       THEN /\ escaped' = TRUE
            /\ pc' = "done"
            /\ UNCHANGED <<rrg_data, rrg_locals>>
       ELSE /\ rrg_locals' = RrgLocals(df_close)
            /\ rrg_data' = [sec \in DOMAIN rrg_locals' |->
                               RrgRecord(sec, rrg_locals'[sec].r_ratio, rrg_locals'[sec].r_mom)]
            /\ pc' = "ind"
            /\ UNCHANGED escaped
    /\ UNCHANGED <<df_close, ind_results, quadrant, tg_configured, tg_message>>
    /\ CallUnchanged

CalculateIndicators ==
    /\ pc = "ind"
    /\ ind_results' = IndResultsFrom(df_close, 1, <<>>)
    /\ pc' = "dash"
    /\ UNCHANGED <<df_close, rrg_data, rrg_locals, quadrant, tg_configured, tg_message, escaped>>
    /\ CallUnchanged

\* generate_dashboard (lines 197-248): the marker colour of line 223; the drawing is plotly's
GenerateDashboard ==
    /\ pc = "dash"
    /\ quadrant' = [sec \in DOMAIN rrg_data |->
                       get_quadrant_color(rrg_data[sec].current_x, rrg_data[sec].current_y)]
    /\ pc' = "tg"
    /\ UNCHANGED <<df_close, rrg_data, rrg_locals, ind_results, tg_configured, tg_message, escaped>>
    /\ CallUnchanged

\* df.iloc[-1] of an indicator's frame, as the row get_ma_status_text reads
LastRow(df) == [c \in Range(MA_COLS) |-> SeriesLast(df[c])]

\* send_telegram (lines 266-290): what the message is made of
SendTelegram ==
    /\ pc = "tg"
    /\ tg_message' =
           IF ~tg_configured THEN tg_message
           ELSE [sent |-> TRUE,
                 leading |-> {rrg_data[sec].display_name : sec \in
                     {s \in DOMAIN rrg_data : Gt(rrg_data[s].current_x, Hundred)
                                              /\ Gt(rrg_data[s].current_y, Hundred)}},
                 improving |-> {rrg_data[sec].display_name : sec \in
                     {s \in DOMAIN rrg_data : Lt(rrg_data[s].current_x, Hundred)
                                              /\ Gt(rrg_data[s].current_y, Hundred)}},
                 statuses |-> [k \in 1..Len(ind_results) |->
                     get_ma_status_text(ind_results[k].latest_value, LastRow(ind_results[k].df))]]
    /\ pc' = "done"
    /\ UNCHANGED <<df_close, rrg_data, rrg_locals, ind_results, quadrant, tg_configured, escaped>>
    /\ CallUnchanged

Next ==
    \/ GetDataAndSynthesize
    \/ CalculateRrgComponents
    \/ CalculateIndicators
    \/ GenerateDashboard
    \/ SendTelegram

\* the state main() starts the synthesis in, the downloaded table being `df`
MainStart(df, configured) ==
    /\ pc = "synth"
    /\ df_close = df
    /\ rrg_data = NoTable /\ rrg_locals = NoTable /\ ind_results = <<>> /\ quadrant = NoTable
    /\ tg_configured = configured
    /\ tg_message = NoMessage
    /\ escaped = FALSE
    /\ arg_x = NoCall.x /\ arg_y = NoCall.y /\ arg_val = NoCall.val
    /\ arg_row = NoCall.row /\ ret = NoCall.ret

(***************************************************************************)
(* Price histories.  A history is a long run of one price followed by a    *)
(* few most recent dates whose closes vary and may be missing.             *)
(***************************************************************************)
History(n, base, recent) ==
    LET F(i) == IF i <= n - Len(recent) THEN base ELSE recent[i - (n - Len(recent))]
    IN Build(F, 1, n)

\* the number of most recent dates whose closes vary
RecentDates == 2
\* the closes tried on those dates: 1..MaxPrice, and NaN for a missing one
MaxPrice == 2
RecentCloses == {Whole(i) : i \in 1..MaxPrice} \cup {NaN}

(***************************************************************************)
(* main() on a benchmark and two sectors, the second sector's prices being *)
(* a multiple of the first's.                                              *)
(***************************************************************************)
\* the numbers of dates tried: MaxObs - ObsSpan .. MaxObs
MaxObs == 74
ObsSpan == 6
\* the multiples tried: the halves up to MaxScale / 2
MaxScale == 3
Scales == {Num(i, 2) : i \in 1..MaxScale}

RrgTable(n, recent, c, bench_missing) ==
    LET sector == History(n, Whole(1), recent)
    IN [t \in {BENCHMARK, "XLK", "XLF"} |->
           IF t = "XLK" THEN sector
           ELSE IF t = "XLF" THEN SeriesScale(c, sector)
           ELSE History(n, Whole(2), IF bench_missing THEN <<NaN>> ELSE <<>>)]

InitRRG ==
    \E n \in (MaxObs - ObsSpan)..MaxObs, recent \in [1..RecentDates -> RecentCloses],
       c \in Scales, bench_missing \in BOOLEAN :
        MainStart(RrgTable(n, recent, c, bench_missing), TRUE)

SpecRRG == InitRRG /\ [][Next]_vars

(***************************************************************************)
(* main() on a table that lacks some of the tickers asked for.             *)
(***************************************************************************)
\* real_tickers (lines 74-89): what is asked of the download
RealTickers ==
    {BENCHMARK}
        \cup {sec \in Range(SECTORS) : sec # SYNTH_NAME}
        \cup ({INDICATORS[k].numerator : k \in 1..Len(INDICATORS)} \ {SYNTH_NAME})
        \cup ({INDICATORS[k].denominator : k \in 1..Len(INDICATORS)} \ {SYNTH_NAME})
        \cup {SYNTH_COMPONENTS[k].ticker : k \in 1..Len(SYNTH_COMPONENTS)}

\* at most MaxAbsent tickers are no column of the table; the table has up to MaxRows dates
MaxAbsent == 2
MaxRows == 2

InitMain ==
    \E absent \in {a \in SUBSET RealTickers : Cardinality(a) <= MaxAbsent},
       n \in 0..MaxRows, configured \in BOOLEAN :
        MainStart([t \in RealTickers \ absent |-> History(n, Whole(1), <<>>)], configured)

SpecMain == InitMain /\ [][Next]_vars

(***************************************************************************)
(* main() on a table that holds every component of the synthetic index.    *)
(***************************************************************************)
\* the number of dates of the table
SynthRows == 1
ComponentTickers == {SYNTH_COMPONENTS[k].ticker : k \in 1..Len(SYNTH_COMPONENTS)}

InitSynth ==
    \E closes \in [ComponentTickers -> [1..SynthRows -> RecentCloses]], configured \in BOOLEAN :
        MainStart([t \in ComponentTickers \cup {BENCHMARK, "XLP"} |->
                      IF t \in ComponentTickers THEN History(SynthRows, NaN, closes[t])
                      ELSE History(SynthRows, Whole(1), <<>>)],
                  configured)

SpecSynth == InitSynth /\ [][Next]_vars

(***************************************************************************)
(* main() on a table that holds the two tickers of one indicator, with as  *)
(* many dates as a moving-average window, one fewer or one more.           *)
(***************************************************************************)
MA_WINDOWS == {20, 60, 120}
IndLens == {w + e : w \in MA_WINDOWS, e \in {-1, 0, 1}}
\* the closes tried on the latest date: 0..MaxPrice, and NaN for a missing one
IndCloses == {Whole(i) : i \in 0..MaxPrice} \cup {NaN}

InitInd ==
    \E n \in IndLens, num \in IndCloses, den \in IndCloses, configured \in BOOLEAN :
        MainStart([t \in {"XLI", "XLU"} |->
                      History(n, Whole(1), IF t = "XLI" THEN <<num>> ELSE <<den>>)],
                  configured)

SpecInd == InitInd /\ [][Next]_vars

(***************************************************************************)
(* One call of get_quadrant_color.                                         *)
(***************************************************************************)
\* the coordinates tried: the halves within QuadSpan halves of 100, NaN and Inf
QuadSpan == 3
QuadGrid == {Num(200 + i, 2) : i \in -QuadSpan..QuadSpan} \cup {NaN, Inf}

InitQuad ==
    /\ pc = "call_quadrant"
    /\ arg_x \in QuadGrid /\ arg_y \in QuadGrid
    /\ arg_val = NoCall.val /\ arg_row = NoCall.row /\ ret = NoCall.ret
    /\ PipelineIdle

CallQuadrant ==
    /\ pc = "call_quadrant"
    /\ ret' = get_quadrant_color(arg_x, arg_y)
    /\ pc' = "ret_quadrant"
    /\ UNCHANGED <<df_close, rrg_data, rrg_locals, ind_results, quadrant, tg_configured,
                   tg_message, escaped, arg_x, arg_y, arg_val, arg_row>>

NextQuad == CallQuadrant
SpecQuad == InitQuad /\ [][NextQuad]_vars

(***************************************************************************)
(* One call of get_ma_status_text.                                         *)
(***************************************************************************)
\* the current value and the six averages tried: 1..MaxMA and NaN
MaxMA == 3
MAValues == {Whole(i) : i \in 1..MaxMA} \cup {NaN}

InitMA ==
    /\ pc = "call_ma_status"
    /\ arg_val \in MAValues
    /\ arg_row \in [Range(MA_COLS) -> MAValues]
    /\ arg_x = NoCall.x /\ arg_y = NoCall.y /\ ret = NoCall.ret
    /\ PipelineIdle

CallMAStatus ==
    /\ pc = "call_ma_status"
    /\ ret' = get_ma_status_text(arg_val, arg_row)
    /\ pc' = "ret_ma_status"
    /\ UNCHANGED <<df_close, rrg_data, rrg_locals, ind_results, quadrant, tg_configured,
                   tg_message, escaped, arg_x, arg_y, arg_val, arg_row>>

NextMA == CallMAStatus
SpecMA == InitMA /\ [][NextMA]_vars

(***************************************************************************)
(* The claims.                                                             *)
(***************************************************************************)
Above100(a) == a.k = "inf" \/ (IsNum(a) /\ a.n > 100 * a.d)
Below100(a) == IsNum(a) /\ a.n < 100 * a.d

\* C7: get_quadrant_color is total over the defined (x, y): it returns one of the four
\* quadrant colours, Leading iff x > 100 and y > 100, Improving iff x < 100 and
\* y > 100, Lagging iff x < 100 and y < 100, and Weakening in every other case.
C7_QuadrantTotal ==
    (pc = "ret_quadrant" /\ Defined(arg_x) /\ Defined(arg_y)) =>
        /\ ret \in {COLORS.leading, COLORS.improving, COLORS.lagging, COLORS.weakening}
        /\ (ret = COLORS.leading) <=> (Above100(arg_x) /\ Above100(arg_y))
        /\ (ret = COLORS.improving) <=> (Below100(arg_x) /\ Above100(arg_y))
        /\ (ret = COLORS.lagging) <=> (Below100(arg_x) /\ Below100(arg_y))
        /\ (ret = COLORS.weakening) <=>
               ~ \/ Above100(arg_x) /\ Above100(arg_y)
                 \/ Below100(arg_x) /\ Above100(arg_y)
                 \/ Below100(arg_x) /\ Below100(arg_y)

\* C7's case: a point on the boundary x == 100 above the centre is Weakening
C7_Witness ==
    /\ pc = "ret_quadrant"
    /\ arg_x = Whole(100) /\ Above100(arg_y) /\ IsNum(arg_y)
    /\ ret = COLORS.weakening

\* the average a name of MA_NAMES stands for, in the row of the call
RowValue(name) == arg_row[MA_COLS[CHOOSE i \in 1..Len(MA_NAMES) : MA_NAMES[i] = name]]
RowDefined == \A c \in Range(MA_COLS) : IsNum(arg_row[c])
\* the averages strictly below, and those at or above, the current value
BelowVal == {c \in Range(MA_COLS) : arg_row[c].n * arg_val.d < arg_val.n * arg_row[c].d}
AtOrAboveVal == Range(MA_COLS) \ BelowVal
LeqRat(a, b) == a.n * b.d <= b.n * a.d

\* C8: for defined inputs with 1 <= support_count <= 5 the result is Ranging(floor,
\* ceiling), floor naming an average that is greatest among those < v and ceiling an
\* average that is least among those >= v; never Indeterminate, ties included.
C8_RangingFloorCeiling ==
    (pc = "ret_ma_status" /\ IsNum(arg_val) /\ RowDefined
        /\ Cardinality(BelowVal) \in 1..5) =>
        /\ ret.label = "Ranging"
        /\ ret.floor_ma \in Range(MA_NAMES) /\ ret.ceil_ma \in Range(MA_NAMES)
        /\ \E c \in BelowVal :
              /\ RowValue(ret.floor_ma) = arg_row[c]
              /\ \A e \in BelowVal : LeqRat(arg_row[e], arg_row[c])
        /\ \E c \in AtOrAboveVal :
              /\ RowValue(ret.ceil_ma) = arg_row[c]
              /\ \A e \in AtOrAboveVal : LeqRat(arg_row[c], arg_row[e])

\* C8's case: two averages tie exactly at the current value, others lie below it
C8_Witness ==
    /\ pc = "ret_ma_status" /\ IsNum(arg_val) /\ RowDefined
    /\ Cardinality(BelowVal) \in 1..5
    /\ Cardinality({c \in Range(MA_COLS) : arg_row[c] = arg_val}) >= 2
    /\ ret.label = "Ranging"

\* the table holds a close of the sector and of the benchmark on every date
NoMissing(sec) ==
    \A i \in 1..Rows(df_close) : IsNum(df_close[sec][i]) /\ IsNum(df_close[BENCHMARK][i])
AllUndefined(series) == \A i \in 1..Len(series) : ~Defined(series[i])
RrgDone == pc \in {"ind", "dash", "tg", "done"}
DashboardDone == pc \in {"tg", "done"}

\* C1, as claimed: without missing values, 69 observations leave rs_momentum
\* undefined at every date and 70 observations define it at the last date.
C1_Original ==
    \A sec \in DOMAIN rrg_locals :
        NoMissing(sec) =>
            /\ Rows(df_close) = 69 => AllUndefined(rrg_locals[sec].r_mom)
            /\ Rows(df_close) = 70 => Defined(SeriesLast(rrg_locals[sec].r_mom))

\* C1, amended: without missing values rs_ratio is defined exactly from the 60th
\* observation on and rs_momentum exactly from the 69th on: 68 observations leave
\* rs_momentum undefined at every date, 69 define it at the last date.
C1_MinHistory ==
    \A sec \in DOMAIN rrg_locals :
        NoMissing(sec) =>
            \A i \in 1..Rows(df_close) :
                /\ Defined(rrg_locals[sec].r_ratio[i]) <=> i >= 60
                /\ Defined(rrg_locals[sec].r_mom[i]) <=> i >= 69

\* C1's case: exactly 69 observations, none missing, and the last rs_momentum defined
C1_Witness ==
    /\ RrgDone /\ "XLK" \in DOMAIN rrg_locals /\ NoMissing("XLK")
    /\ Rows(df_close) = 69
    /\ Defined(SeriesLast(rrg_locals["XLK"].r_mom))
    /\ AllUndefined(SubSeq(rrg_locals["XLK"].r_mom, 1, 68))

\* C3: a sector whose current rs_ratio or rs_momentum is undefined is given no
\* quadrant (not the Weakening default either) and is not selected as Leading or
\* Improving.
C3_UndefinedNotClassified ==
    DashboardDone =>
        \A sec \in DOMAIN rrg_data :
            (~Defined(rrg_data[sec].current_x) \/ ~Defined(rrg_data[sec].current_y)) =>
                /\ sec \notin DOMAIN quadrant
                /\ rrg_data[sec].display_name \notin tg_message.leading \cup tg_message.improving

\* the dates at which both coordinates of a sector are defined, in order
RECURSIVE DefinedDates(_, _)
DefinedDates(loc, i) ==
    IF i > Len(loc.r_ratio) THEN <<>>
    ELSE (IF Defined(loc.r_ratio[i]) /\ Defined(loc.r_mom[i]) THEN <<i>> ELSE <<>>)
             \o DefinedDates(loc, i + 1)

\* C4: a record's current point is the pair of the latest date at which both
\* coordinates are defined, and its trail the pairs of the 5 most recent such dates,
\* oldest first (stated for the sectors that have 5 such dates).
C4_CurrentIsLatestDefined ==
    \A sec \in DOMAIN rrg_data :
        LET loc == rrg_locals[sec]
            dates == DefinedDates(loc, 1)
            recent == SubSeq(dates, Len(dates) - 4, Len(dates))
        IN Len(dates) >= 5 =>
            /\ rrg_data[sec].current_x = loc.r_ratio[dates[Len(dates)]]
            /\ rrg_data[sec].current_y = loc.r_mom[dates[Len(dates)]]
            /\ rrg_data[sec].x = [k \in 1..5 |-> loc.r_ratio[recent[k]]]
            /\ rrg_data[sec].y = [k \in 1..5 |-> loc.r_mom[recent[k]]]

\* C10: with the sector's prices multiplied by a positive constant and the benchmark
\* kept, rs_ratio and rs_momentum are the same at every date, and so are the trail,
\* the current point and the quadrant.  XLF's prices are c times XLK's.
C10_ScaleInvariant ==
    (RrgDone /\ {"XLK", "XLF"} \subseteq DOMAIN rrg_data) =>
        /\ rrg_locals["XLF"] = rrg_locals["XLK"]
        /\ rrg_data["XLF"].x = rrg_data["XLK"].x
        /\ rrg_data["XLF"].y = rrg_data["XLK"].y
        /\ rrg_data["XLF"].current_x = rrg_data["XLK"].current_x
        /\ rrg_data["XLF"].current_y = rrg_data["XLK"].current_y
        /\ DashboardDone => quadrant["XLF"] = quadrant["XLK"]

\* C10's case: the prices differ, the current point is defined off the centre and
\* both sectors got their quadrant
C10_Witness ==
    /\ pc = "done" /\ {"XLK", "XLF"} \subseteq DOMAIN quadrant
    /\ df_close["XLF"] # df_close["XLK"]
    /\ IsNum(rrg_data["XLF"].current_x) /\ IsNum(rrg_data["XLF"].current_y)
    /\ rrg_data["XLF"].current_x # Hundred
    /\ quadrant["XLF"] = COLORS.leading

SynthDone == pc # "synth"
IndDone == pc \in {"dash", "tg", "done"}
ComponentAbsent == \E t \in ComponentTickers : t \notin Columns(df_close)
UsesSynth(item) == item.numerator = SYNTH_NAME \/ item.denominator = SYNTH_NAME
IndicatorNames == {ind_results[k].meta : k \in 1..Len(ind_results)}

\* C5: with a component of the synthetic index absent from the table, the synthetic
\* ticker is not added, gets no RRG record, no indicator that uses it gets a record,
\* every other sector and indicator whose tickers are columns of the (non-empty)
\* table is processed, and no exception leaves main.
C5_SynthesisFailureIsLocal ==
    ComponentAbsent =>
        /\ ~escaped
        /\ SynthDone => SYNTH_NAME \notin Columns(df_close)
        /\ SYNTH_NAME \notin DOMAIN rrg_data
        /\ \A k \in 1..Len(INDICATORS) :
              UsesSynth(INDICATORS[k]) => INDICATORS[k].name \notin IndicatorNames
        /\ (RrgDone /\ ~Empty(df_close) /\ BENCHMARK \in Columns(df_close)) =>
              \A sec \in Range(SECTORS) \cap Columns(df_close) : sec \in DOMAIN rrg_data
        /\ (IndDone /\ ~Empty(df_close)) =>
              \A k \in 1..Len(INDICATORS) :
                  {INDICATORS[k].numerator, INDICATORS[k].denominator} \subseteq Columns(df_close)
                      => INDICATORS[k].name \in IndicatorNames
        /\ (pc = "done" /\ ~Empty(df_close)) => DOMAIN quadrant = DOMAIN rrg_data

\* C5's case: a component is absent, the run is over, another sector and the other
\* indicator were processed
C5_Witness ==
    /\ pc = "done" /\ ComponentAbsent /\ ~escaped
    /\ "XLK" \in DOMAIN quadrant
    /\ "XLI/XLU" \in IndicatorNames
    /\ SYNTH_NAME \notin DOMAIN rrg_data

\* C6: with every component a column of the table, the synthetic series has a value
\* at a date iff every component has one, and the value is the sum of weight x price
\* (35, 35 and 30 hundredths), with no divisor.
C6_WeightedSum ==
    (SynthDone /\ ~ComponentAbsent) =>
        /\ SYNTH_NAME \in Columns(df_close)
        /\ \A i \in 1..Rows(df_close) :
              LET v == df_close[SYNTH_NAME][i]
                  all_present == \A t \in ComponentTickers : IsNum(df_close[t][i])
              IN /\ Defined(v) <=> all_present
                 /\ all_present =>
                       /\ IsNum(v)
                       /\ 100 * v.n * df_close["PEJ"][i].d * df_close["XHB"][i].d * df_close["XRT"][i].d
                            = v.d * ( 35 * df_close["PEJ"][i].n * df_close["XHB"][i].d * df_close["XRT"][i].d
                                    + 35 * df_close["XHB"][i].n * df_close["PEJ"][i].d * df_close["XRT"][i].d
                                    + 30 * df_close["XRT"][i].n * df_close["PEJ"][i].d * df_close["XHB"][i].d)

\* C6's case: the synthetic series has a value at a date where every component is
\* present and the component prices are unequal
C6_Witness ==
    /\ SynthDone /\ ~ComponentAbsent /\ SYNTH_NAME \in Columns(df_close)
    /\ \E i \in 1..Rows(df_close) :
          /\ IsNum(df_close[SYNTH_NAME][i])
          /\ df_close["PEJ"][i] # df_close["XRT"][i]

\* the indicator a result was computed for
ItemOf(res) == INDICATORS[CHOOSE k \in 1..Len(INDICATORS) : INDICATORS[k].name = res.meta]

\* C9: the ratio is undefined (the state of a missing input) at every date where the
\* denominator is zero or the numerator or the denominator is missing, and so is
\* latest_value when that date is the last.
C9_ZeroDenominatorUndefined ==
    \A k \in 1..Len(ind_results) :
        LET res == ind_results[k]
            num == df_close[ItemOf(res).numerator]
            den == df_close[ItemOf(res).denominator]
        IN \A i \in 1..Len(res.df.close) :
              (den[i] = Whole(0) \/ IsNaN(den[i]) \/ IsNaN(num[i])) =>
                  /\ IsNaN(res.df.close[i])
                  /\ i = Len(res.df.close) => IsNaN(res.latest_value)

\* C2: get_ma_status_text returns Indeterminate whenever one of the six averages of
\* the row is undefined; stated of the calls send_telegram makes.
C2_UndefinedAverageIndeterminate ==
    tg_message.sent =>
        \A k \in 1..Len(ind_results) :
            (\E c \in Range(MA_COLS) : ~Defined(LastRow(ind_results[k].df)[c])) =>
                tg_message.statuses[k].label = "Indeterminate"

====
